---- MODULE Spec2Model ----
(***************************************************************************)
(* LiFin Insurance Lab (src/app.py): the NPV engine insurance_npv, the     *)
(* mortality model, the utility score and the break-even finder, together  *)
(* with the top-level script that calls them.                              *)
(*                                                                         *)
(* Numbers.  Python floats are modelled as fixed-point numbers: a          *)
(* probability, a multiplier, a rate or a discount factor x is the integer *)
(* floor(x * One), One = 10^7; money is an integer number of rupees.  Every *)
(* product is rounded down to the unit (MulFix), so rounding is monotone   *)
(* as it is for floats.  All base hazards, slopes and risk multipliers of  *)
(* the source are exact multiples of 1/One.                                *)
(***************************************************************************)
EXTENDS Integers, Sequences, FiniteSets, TLC

VARIABLES
    \* ---- widget values read by the script (src/app.py:34-79) ----
    age, gender, smoker, health, dependents, discount_rate,
    polA, polB,
    \* ---- script globals ----
    terms,              \* np.arange(5, 81)                       (line 234)
    npvA, npvB,         \* results of the two top-level calls     (166-167)
    utilA, utilB,       \* utility scores [num, den]              (169-170)
    npvA_terms, npvB_terms,   \* NPV-vs-Term sweeps               (235-236)
    beA, beB,           \* break-even pairs <<x, y>>              (238-239)
    spc,                \* position of the script
    \* ---- the active call of insurance_npv (lines 119-161) ----
    fpc,                \* "idle" | "loop"
    args,               \* the thirteen arguments
    r, pv_benefit, pv_premium, survival, mult, effective_term,
    t, p_death, expected_payout, effective_premium,
    premium_added       \* did year t take a branch of lines 154-157

inputs  == <<age, gender, smoker, health, dependents, discount_rate, polA, polB, terms>>
results == <<npvA, npvB, utilA, utilB, npvA_terms, npvB_terms, beA, beB>>
locals  == <<r, pv_benefit, pv_premium, survival, mult, effective_term,
             t, p_death, expected_payout, effective_premium, premium_added>>
vars    == <<inputs, results, spc, fpc, args, locals>>

(***************************************************************************)
(* Fixed-point arithmetic                                                  *)
(***************************************************************************)
One == 10^7

\* floor(a * b / One) for 0 <= a, b < 10^8, without overflowing 32 bits.
MulFix(a, b) ==
    LET a1 == a \div 10000  a0 == a % 10000
        b1 == b \div 10000  b0 == b % 10000
    IN  a1 * b1 * 10 + (a1 * b0 + a0 * b1 + (a0 * b0) \div 10000) \div 1000

\* floor(n * 10^k / d) by long division.
RECURSIVE LongDiv(_, _, _)
LongDiv(n, k, d) ==
    IF k = 0 THEN n \div d
    ELSE (n \div d) * 10^k + LongDiv((n % d) * 10, k - 1, d)

\* b ** e as a fixed-point number, by repeated squaring.
RECURSIVE PowFix(_, _)
PowFix(b, e) ==
    IF e = 0 THEN One
    ELSE IF e % 2 = 0 THEN LET h == PowFix(b, e \div 2) IN MulFix(h, h)
    ELSE MulFix(PowFix(b, e - 1), b)

\* 1 / ((1 + r) ** t): the t-th power of the one-year factor 1 / (1 + r).
DiscountFactor(rr, tt) == PowFix(LongDiv(One, 7, One + rr), tt)

Max(a, b) == IF a >= b THEN a ELSE b
Min(a, b) == IF a <= b THEN a ELSE b
Abs(a)    == IF a < 0 THEN -a ELSE a

(***************************************************************************)
(* Mortality model (src/app.py:99-114)                                     *)
(***************************************************************************)
\* base_mortality without the floor at age 30 (current_age - 30 unguarded)
base_mortality_unfloored(a, year, g) ==
    LET current_age == a + year
        base  == IF g = "Female" THEN 15000 ELSE 20000
        slope == 2500
        p     == base + slope * (current_age - 30)
    IN  Min(p, 2500000)

base_mortality(a, year, g) ==
    LET current_age == a + year
        base  == IF g = "Female" THEN 15000 ELSE 20000     \* 0.0015 / 0.002
        slope == 2500                                       \* 0.00025
        p     == base + slope * Max(current_age - 30, 0)
    IN  Min(p, 2500000)                                     \* min(p, 0.25)

risk_multiplier(s, h) ==
    LET m0 == One
        m1 == IF s = "Yes" THEN MulFix(m0, 15000000) ELSE m0          \* *= 1.5
    IN  IF h = "Average" THEN MulFix(m1, 13000000)                    \* *= 1.3
        ELSE IF h = "Poor" THEN MulFix(m1, 18000000)                  \* *= 1.8
        ELSE m1

(***************************************************************************)
(* One year of the loop of insurance_npv (src/app.py:131-159)              *)
(***************************************************************************)
\* the expected payout with the disability gate written (age + t) <= 60
ExpectedPayout_upto60(a, surv, pd, tt) ==
    LET payout == IF a.accidental THEN MulFix(a.coverage, 15000000)
                  ELSE a.coverage
        e1 == MulFix(MulFix(surv, pd), payout)
        e2 == IF a.critical
              THEN e1 + MulFix(MulFix(MulFix(surv, 1000000), 3000000), a.coverage)
              ELSE e1
    IN  IF a.disability /\ (a.age + tt) <= 60
        THEN e2 + MulFix(MulFix(MulFix(surv, 500000), 2000000), a.coverage)
        ELSE e2

\* lines 133-145: payout and the expected payout of year tt
ExpectedPayout(a, surv, pd, tt) ==
    LET payout == IF a.accidental THEN MulFix(a.coverage, 15000000)
                  ELSE a.coverage
        e1 == MulFix(MulFix(surv, pd), payout)
        e2 == IF a.critical
              THEN e1 + MulFix(MulFix(MulFix(surv, 1000000), 3000000), a.coverage)
              ELSE e1
    IN  IF a.disability /\ (a.age + tt) < 60
        THEN e2 + MulFix(MulFix(MulFix(surv, 500000), 2000000), a.coverage)
        ELSE e2

\* the waiver with the vesting test written t >= 10
EffectivePremium_vest10(a, tt) ==
    IF a.wop /\ (a.age + tt) < 55 /\ tt >= 10 THEN 0 ELSE a.premium

\* the waiver with the age test written (age + t) <= 55
EffectivePremium_upto55(a, tt) ==
    IF a.wop /\ (a.age + tt) <= 55 /\ tt > 10 THEN 0 ELSE a.premium

\* lines 150-152: waiver of premium
EffectivePremium(a, tt) ==
    IF a.wop /\ (a.age + tt) < 55 /\ tt > 10 THEN 0 ELSE a.premium

\* the premium-paying period without the year-60 cutoff of Whole Life
PremiumDue_nocutoff(a, tt) ==
    IF a.policy_type = "Term Insurance" /\ tt <= a.term THEN TRUE
    ELSE IF a.policy_type = "Whole Life" THEN TRUE
    ELSE FALSE

\* lines 154-157: is year tt inside the premium-paying period
PremiumDue(a, tt) ==
    IF a.policy_type = "Term Insurance" /\ tt <= a.term THEN TRUE
    ELSE IF a.policy_type = "Whole Life" /\ tt <= 60 THEN TRUE
    ELSE FALSE

\* the locals before the loop with the Whole Life horizon forgotten
Entry_term(a) ==
    [r |-> a.discount_rate \div 100,
     pv_benefit |-> 0, pv_premium |-> 0, survival |-> One,
     mult |-> risk_multiplier(a.smoker, a.health),
     effective_term |-> a.term,
     t |-> 0, p_death |-> 0, expected_payout |-> 0, effective_premium |-> 0,
     premium_added |-> FALSE]

\* lines 122-128: the locals before the loop
Entry(a) ==
    [r |-> a.discount_rate \div 100,
     pv_benefit |-> 0, pv_premium |-> 0, survival |-> One,
     mult |-> risk_multiplier(a.smoker, a.health),
     effective_term |-> IF a.policy_type = "Term Insurance" THEN a.term ELSE 100,
     t |-> 0, p_death |-> 0, expected_payout |-> 0, effective_premium |-> 0,
     premium_added |-> FALSE]

\* the loop body with line 159 written survival *= (1 + p_death)
YearStep_growing(a, l) ==
    LET tt  == l.t + 1
        pd  == MulFix(base_mortality(a.age, tt, a.gender), l.mult)
        ep  == ExpectedPayout(a, l.survival, pd, tt)
        prm == EffectivePremium(a, tt)
        due == PremiumDue(a, tt)
        df  == DiscountFactor(l.r, tt)
    IN  [l EXCEPT !.t = tt, !.p_death = pd, !.expected_payout = ep,
                  !.pv_benefit = l.pv_benefit + MulFix(ep, df),
                  !.effective_premium = prm,
                  !.premium_added = due,
                  !.pv_premium = IF due THEN l.pv_premium + MulFix(prm, df)
                                 ELSE l.pv_premium,
                  !.survival = MulFix(l.survival, One + pd)]

\* lines 131-159: the body of the loop, for the year after l.t
YearStep(a, l) ==
    LET tt  == l.t + 1
        pd  == MulFix(base_mortality(a.age, tt, a.gender), l.mult)
        ep  == ExpectedPayout(a, l.survival, pd, tt)
        prm == EffectivePremium(a, tt)
        due == PremiumDue(a, tt)
        df  == DiscountFactor(l.r, tt)
    IN  [l EXCEPT !.t = tt, !.p_death = pd, !.expected_payout = ep,
                  !.pv_benefit = l.pv_benefit + MulFix(ep, df),
                  !.effective_premium = prm,
                  !.premium_added = due,
                  !.pv_premium = IF due THEN l.pv_premium + MulFix(prm, df)
                                 ELSE l.pv_premium,
                  !.survival = MulFix(l.survival, One - pd)]

\* lines 119-161 as a function of the arguments alone: Entry, then
\* effective_term times YearStep, then pv_benefit - pv_premium.
RECURSIVE Years(_, _)
Years(a, l) == IF l.t >= l.effective_term THEN l ELSE Years(a, YearStep(a, l))

insurance_npv(a) ==
    LET l == Years(a, Entry(a))
    IN  l.pv_benefit - l.pv_premium

(***************************************************************************)
(* Break-even finder (src/app.py:24-27) and utility score (169-170)        *)
(***************************************************************************)
\* argmin without the abs: the first index holding the smallest y
RECURSIVE ArgMinAbs_signed(_, _, _)
ArgMinAbs_signed(y, best, i) ==
    IF i > Len(y) THEN best
    ELSE IF y[i] < y[best] THEN ArgMinAbs_signed(y, i, i + 1)
    ELSE ArgMinAbs_signed(y, best, i + 1)

\* np.argmin(np.abs(y)): the first index holding the smallest |y|, found
\* by a left-to-right scan; best is the candidate so far, i the next index.
RECURSIVE ArgMinAbs(_, _, _)
ArgMinAbs(y, best, i) ==
    IF i > Len(y) THEN best
    ELSE IF Abs(y[i]) < Abs(y[best]) THEN ArgMinAbs(y, i, i + 1)
    ELSE ArgMinAbs(y, best, i + 1)

find_break_even(x_vals, y_vals) ==
    LET idx == ArgMinAbs(y_vals, 1, 2)
    IN  <<x_vals[idx], y_vals[idx]>>

\* the score without the + 1 in its denominator
Utility_unguarded(cover, deps, npv) ==
    [num |-> cover * Max(deps, 1), den |-> Abs(npv)]

\* cover * max(dependents, 1) / (abs(npv) + 1), kept as numerator and
\* denominator of the division.
Utility(cover, deps, npv) ==
    [num |-> cover * Max(deps, 1), den |-> Abs(npv) + 1]

(***************************************************************************)
(* The script (src/app.py:166-170, 234-239)                                *)
(***************************************************************************)
ArgsFor(pol, term) ==
    [age |-> age, term |-> term, coverage |-> pol.cover, premium |-> pol.prem,
     discount_rate |-> discount_rate, gender |-> gender, smoker |-> smoker,
     health |-> health, accidental |-> pol.acc, critical |-> pol.ci,
     disability |-> pol.dis, wop |-> pol.wop, policy_type |-> pol.type]

CallSites == {"npvA", "npvB", "sweepA", "sweepB"}

\* the arguments of the call the script is about to make
CallArgs ==
    CASE spc = "npvA"   -> ArgsFor(polA, polA.term)
      [] spc = "npvB"   -> ArgsFor(polB, polB.term)
      [] spc = "sweepA" -> ArgsFor(polA, terms[Len(npvA_terms) + 1])
      [] spc = "sweepB" -> ArgsFor(polB, terms[Len(npvB_terms) + 1])

SetLocals(l) ==
    /\ r' = l.r
    /\ pv_benefit' = l.pv_benefit
    /\ pv_premium' = l.pv_premium
    /\ survival' = l.survival
    /\ mult' = l.mult
    /\ effective_term' = l.effective_term
    /\ t' = l.t
    /\ p_death' = l.p_death
    /\ expected_payout' = l.expected_payout
    /\ effective_premium' = l.effective_premium
    /\ premium_added' = l.premium_added

Locals ==
    [r |-> r, pv_benefit |-> pv_benefit, pv_premium |-> pv_premium,
     survival |-> survival, mult |-> mult, effective_term |-> effective_term,
     t |-> t, p_death |-> p_death, expected_payout |-> expected_payout,
     effective_premium |-> effective_premium, premium_added |-> premium_added]

\* a call whose survival probability is kept from the call before
Call_stale(site) ==
    /\ fpc = "idle"
    /\ spc = site
    /\ args' = CallArgs
    /\ SetLocals([Entry(CallArgs) EXCEPT !.survival = survival])
    /\ fpc' = "loop"
    /\ UNCHANGED <<inputs, results, spc>>

\* the script, at call site `site`, calls insurance_npv: lines 122-128 run
Call(site) ==
    /\ fpc = "idle"
    /\ spc = site
    /\ args' = CallArgs
    /\ SetLocals(Entry(CallArgs))
    /\ fpc' = "loop"
    /\ UNCHANGED <<inputs, results, spc>>

\* one iteration of the for loop, lines 130-159
Year ==
    /\ fpc = "loop"
    /\ t < effective_term
    /\ SetLocals(YearStep(args, Locals))
    /\ UNCHANGED <<inputs, results, spc, fpc, args>>

\* the loop is exhausted; line 161 returns and the caller stores the value
Return ==
    /\ fpc = "loop"
    /\ t >= effective_term
    /\ fpc' = "idle"
    /\ LET npv == pv_benefit - pv_premium IN
       CASE spc = "npvA" ->
              /\ npvA' = npv
              /\ spc' = "npvB"
              /\ UNCHANGED <<npvB, npvA_terms, npvB_terms>>
         [] spc = "npvB" ->
              /\ npvB' = npv
              /\ spc' = "util"
              /\ UNCHANGED <<npvA, npvA_terms, npvB_terms>>
         [] spc = "sweepA" ->
              /\ npvA_terms' = Append(npvA_terms, npv)
              /\ spc' = IF Len(npvA_terms) + 1 = Len(terms) THEN "sweepB" ELSE "sweepA"
              /\ UNCHANGED <<npvA, npvB, npvB_terms>>
         [] spc = "sweepB" ->
              /\ npvB_terms' = Append(npvB_terms, npv)
              /\ spc' = IF Len(npvB_terms) + 1 = Len(terms) THEN "break_even" ELSE "sweepB"
              /\ UNCHANGED <<npvA, npvB, npvA_terms>>
    /\ UNCHANGED <<inputs, utilA, utilB, beA, beB, args, locals>>

\* lines 169-170
Score ==
    /\ spc = "util"
    /\ fpc = "idle"
    /\ utilA' = Utility(polA.cover, dependents, npvA)
    /\ utilB' = Utility(polB.cover, dependents, npvB)
    /\ spc' = "sweepA"
    /\ UNCHANGED <<inputs, npvA, npvB, npvA_terms, npvB_terms, beA, beB, fpc, args, locals>>

\* lines 238-239
BreakEven ==
    /\ spc = "break_even"
    /\ fpc = "idle"
    /\ beA' = find_break_even(terms, npvA_terms)
    /\ beB' = find_break_even(terms, npvB_terms)
    /\ spc' = "done"
    /\ UNCHANGED <<inputs, npvA, npvB, utilA, utilB, npvA_terms, npvB_terms, fpc, args, locals>>

(***************************************************************************)
(* Inputs                                                                  *)
(***************************************************************************)
MinAge == 18
MaxAge == 65
MinTerm == 5
MaxTerm == 80
MaxDependents == 6

Pol(type, term, cover, prem, acc, ci, dis, w) ==
    [type |-> type, term |-> term, cover |-> cover, prem |-> prem,
     acc |-> acc, ci |-> ci, dis |-> dis, wop |-> w]

\* np.arange(lo, hi + 1)
Arange(lo, hi) == [i \in 1..(hi - lo + 1) |-> lo + i - 1]

\* the script at position `at` with the given widget values and globals, no
\* call of insurance_npv active
Script(a, g, s, h, d, dr, pa, pb, at, xs, na, nb, ya, yb) ==
    /\ age = a /\ gender = g /\ smoker = s /\ health = h
    /\ dependents = d /\ discount_rate = dr
    /\ polA = pa /\ polB = pb
    /\ terms = xs
    /\ npvA = na /\ npvB = nb
    /\ utilA = [num |-> 0, den |-> 1] /\ utilB = [num |-> 0, den |-> 1]
    /\ npvA_terms = ya /\ npvB_terms = yb
    /\ beA = <<0, 0>> /\ beB = <<0, 0>>
    /\ spc = at
    /\ fpc = "idle"
    /\ args = [age |-> a, term |-> pa.term, coverage |-> pa.cover,
               premium |-> pa.prem, discount_rate |-> dr, gender |-> g,
               smoker |-> s, health |-> h, accidental |-> pa.acc,
               critical |-> pa.ci, disability |-> pa.dis, wop |-> pa.wop,
               policy_type |-> pa.type]
    /\ r = 0 /\ pv_benefit = 0 /\ pv_premium = 0 /\ survival = One
    /\ mult = One /\ effective_term = 0 /\ t = 0 /\ p_death = 0
    /\ expected_payout = 0 /\ effective_premium = 0 /\ premium_added = FALSE

\* the state of the script before its first call, for given widget values
Start(a, g, s, h, d, dr, pa, pb, at) ==
    Script(a, g, s, h, d, dr, pa, pb, at,
           Arange(MinTerm, MaxTerm), 0, 0, <<>>, <<>>)

Ages == MinAge..MaxAge
Genders == {"Male", "Female"}
Smokers == {"No", "Yes"}
Healths == {"Good", "Average", "Poor"}

\* ---- the two top-level calls and the scores: lines 166-170 ----
\* Policy B is Policy A without its Waiver of Premium rider.
Profiles == Genders \X Smokers \X Healths
CompareProfiles(a) == IF a = MaxAge THEN Profiles ELSE {<<"Male", "No", "Good">>}
CompareTerms == {MinTerm, 30, MaxTerm}
CompareShapes == {<<"Term Insurance", n>> : n \in CompareTerms} \cup {<<"Whole Life", 30>>}
CompareMoney(a) == IF a = 30 THEN {<<5000000, 20000>>, <<0, 0>>} ELSE {<<5000000, 20000>>}
\* discount rates in percent: the ends and the default of the slider
CompareRates(a) == IF a = 30 THEN {1, 8, 20} ELSE {8}

Init ==
    \E a \in Ages, sh \in CompareShapes,
       acc \in BOOLEAN, ci \in BOOLEAN, dis \in BOOLEAN :
        \E pr \in CompareProfiles(a), m \in CompareMoney(a), dr \in CompareRates(a) :
            Start(a, pr[1], pr[2], pr[3], 2, dr * One,
                  Pol(sh[1], sh[2], m[1], m[2], acc, ci, dis, TRUE),
                  Pol(sh[1], sh[2], m[1], m[2], acc, ci, dis, FALSE),
                  "npvA")

Next == Call("npvA") \/ Call("npvB") \/ Year \/ Return \/ Score

Spec == Init /\ [][Next]_vars

\* ---- the mortality model over every profile: one Whole Life call ----
InitMortality ==
    \E a \in Ages, g \in Genders, s \in Smokers, h \in Healths :
        Start(a, g, s, h, 2, 8 * One,
              Pol("Whole Life", 30, 5000000, 20000, FALSE, FALSE, FALSE, FALSE),
              Pol("Term Insurance", 40, 7500000, 35000, TRUE, TRUE, FALSE, FALSE),
              "npvA")

NextMortality == Call("npvA") \/ Year \/ Return

SpecMortality == InitMortality /\ [][NextMortality]_vars

\* ---- the whole script with its NPV-vs-Term sweeps ----
SweepProfiles == {<<30, "Male", "No", "Good", 8>>, <<40, "Female", "Yes", "Poor", 20>>}
SweepPolicies ==
    {Pol("Term Insurance", 30, 5000000, 20000, FALSE, FALSE, FALSE, FALSE),
     Pol("Whole Life", 40, 7500000, 35000, TRUE, TRUE, TRUE, TRUE)}

InitSweep ==
    \E pr \in SweepProfiles, pa \in SweepPolicies, pb \in SweepPolicies :
        Start(pr[1], pr[2], pr[3], pr[4], 2, pr[5] * One, pa, pb, "npvA")

NextSweep == (\E site \in CallSites : Call(site)) \/ Year \/ Return \/ Score \/ BreakEven

SpecSweep == InitSweep /\ [][NextSweep]_vars

\* ---- find_break_even on arbitrary sweeps ----
MaxLen == 4
MaxAbs == 2
CoverStep == 500000

InitBreakEven ==
    \E n \in 1..MaxLen, x0 \in {0, MinTerm} :
        \E y \in [1..n -> (-MaxAbs)..MaxAbs] :
            Script(30, "Male", "No", "Good", 2, 8 * One,
                   Pol("Term Insurance", 30, 10 * CoverStep, 20000, FALSE, FALSE, FALSE, FALSE),
                   Pol("Term Insurance", 40, 15 * CoverStep, 35000, TRUE, TRUE, FALSE, FALSE),
                   "break_even",
                   Arange(x0, x0 + n - 1), 0, 0,
                   y, [i \in 1..n |-> -y[n + 1 - i]])

NextBreakEven == BreakEven

SpecBreakEven == InitBreakEven /\ [][NextBreakEven]_vars

\* ---- the utility score on arbitrary covers, dependents and NPVs ----
MaxCoverSteps == 3
MaxNpv == 3

NpvSamples == ((-MaxNpv)..MaxNpv) \cup {n * 8205 : n \in (-MaxNpv)..MaxNpv}

InitUtility ==
    \E ka \in 0..MaxCoverSteps, kb \in 0..MaxCoverSteps,
       d \in 0..MaxDependents, na \in NpvSamples :
        Script(30, "Male", "No", "Good", d, 8 * One,
               Pol("Term Insurance", 30, ka * CoverStep, 20000, FALSE, FALSE, FALSE, FALSE),
               Pol("Term Insurance", 40, kb * CoverStep, 35000, TRUE, TRUE, FALSE, FALSE),
               "util", Arange(MinTerm, MaxTerm), na, -na, <<>>, <<>>)

NextUtility == Score

SpecUtility == InitUtility /\ [][NextUtility]_vars

(***************************************************************************)
(* Properties                                                              *)
(***************************************************************************)
\* a year of the loop has just run: its locals describe year t
InYear == fpc = "loop" /\ t >= 1

\* 0.25, the ceiling of line 104
Ceiling == One \div 4

\* C1: for every age 18..65, gender, smoker status and health condition and
\* every elapsed year 1..100, the death probability the projection uses in
\* that year (base hazard plus slope, times the risk multiplier) is greater
\* than 0 and at most 0.25.
C1_DeathProbabilityBounded ==
    InYear => (p_death > 0 /\ p_death <= Ceiling)

\* the oldest, highest-risk profile in the last simulated year
C1_Witness ==
    /\ InYear /\ t = 100
    /\ args.age = MaxAge /\ args.gender = "Male"
    /\ args.smoker = "Yes" /\ args.health = "Poor"
    /\ p_death = 965250

\* the product of (1 - p_death) over years 1..n of the active call, m
\* being its risk multiplier
RECURSIVE Product(_, _)
Product(n, m) ==
    IF n = 0 THEN One
    ELSE MulFix(Product(n - 1, m),
                One - MulFix(base_mortality(args.age, n, args.gender), m))

SurvivalProduct(n) == Product(n, risk_multiplier(args.smoker, args.health))

\* C2: inside one call the survival probability is 1.0 before year 1, lies
\* in [0, 1] in every loop state, no simulated year increases it, and it is
\* the product of (1 - p_death) over the years simulated so far: every year
\* multiplies it by (1 - p_death) of that year, and when the loop ends it
\* equals the product over years 1..effective_term computed from scratch.
C2_Survival ==
    /\ [](fpc = "loop" =>
            /\ survival >= 0 /\ survival <= One
            /\ (t = 0 => survival = One)
            /\ (t = effective_term => survival = SurvivalProduct(t)))
    /\ [][fpc = "loop" /\ fpc' = "loop" =>
            /\ survival' <= survival
            /\ survival' = MulFix(survival, One - p_death')]_vars

\* the second call of the script has run a full Whole Life horizon
C2_Witness ==
    /\ spc = "npvB" /\ fpc = "loop" /\ t = 100
    /\ survival > 0 /\ survival < One

\* the number of years a call with arguments a simulates
Horizon(a) == IF a.policy_type = "Term Insurance" THEN a.term ELSE 100

\* year tt lies in the premium-paying period of a call with arguments a
InPayingPeriod(a, tt) ==
    IF a.policy_type = "Term Insurance" THEN tt <= Horizon(a) ELSE tt <= 60

\* C6: a projection simulates years 1..term_years of a Term policy and years
\* 1..100 of a Whole Life policy, one after the other, and then returns;
\* every simulated year adds its discounted expected payout to pv_benefit;
\* a premium amount is added to pv_premium in every year of a Term policy
\* and, for Whole Life, in years 1..60 only.
C6_HorizonAndPayingPeriod ==
    /\ [](fpc = "loop" =>
            /\ t >= 0 /\ t <= Horizon(args)
            /\ (t >= 1 => (premium_added <=>
                    (args.policy_type = "Term Insurance" \/ t <= 60))))
    /\ [][fpc = "loop" =>
            IF t < Horizon(args)
            THEN /\ fpc' = "loop" /\ t' = t + 1
                 /\ pv_benefit' = pv_benefit
                        + MulFix(expected_payout', DiscountFactor(r, t'))
                 /\ pv_premium' =
                        IF InPayingPeriod(args, t')
                        THEN pv_premium
                             + MulFix(effective_premium', DiscountFactor(r, t'))
                        ELSE pv_premium
            ELSE fpc' = "idle"]_vars

\* the last year of a Whole Life projection: a benefit and no premium
C6_Witness ==
    /\ fpc = "loop" /\ args.policy_type = "Whole Life" /\ t = 100
    /\ ~premium_added /\ pv_premium > 0 /\ expected_payout > 0

\* the waiver condition of year tt
Waived(a, tt) == a.wop /\ (a.age + tt) < 55 /\ tt > 10

\* C7: the premium of year t is 0 when the Waiver of Premium rider is
\* active, age + t < 55 and t > 10, and the full nominal premium in every
\* other year (so 0 exactly in the waived years when the nominal premium is
\* not itself 0); years 1..10 always carry the full premium.
C7_WaiverOfPremium ==
    InYear =>
        /\ effective_premium = (IF Waived(args, t) THEN 0 ELSE args.premium)
        /\ (args.premium # 0 => (effective_premium = 0 <=> Waived(args, t)))
        /\ (t <= 10 => effective_premium = args.premium)

\* the first waived year of a 43-year-old: t = 11, age + t = 54
C7_Witness ==
    /\ InYear /\ args.wop /\ args.premium > 0
    /\ t = 11 /\ args.age + t = 54
    /\ effective_premium = 0 /\ premium_added

\* the three parts of the expected benefit of a year that starts with
\* survival probability s and has death probability pd
DeathPart(a, s, pd) ==
    MulFix(MulFix(s, pd),
           IF a.accidental THEN (a.coverage * 3) \div 2 ELSE a.coverage)

CriticalPart(a, s) ==
    IF a.critical
    THEN MulFix(MulFix(MulFix(s, One \div 10), (3 * One) \div 10), a.coverage)
    ELSE 0

DisabilityPart(a, s, tt) ==
    IF a.disability /\ (a.age + tt) < 60
    THEN MulFix(MulFix(MulFix(s, One \div 20), One \div 5), a.coverage)
    ELSE 0

\* C8: the undiscounted expected benefit of year t is
\* survival * p_death * cover * (1.5 with the Accidental rider, else 1),
\* plus survival * 0.10 * 0.30 * cover with the Critical Illness rider (at
\* any age), plus survival * 0.05 * 0.20 * cover with the Disability rider
\* when age + t < 60; the 1.5 scales the death payout only, and no
\* Disability amount is added once age + t >= 60.
C8_ExpectedBenefit ==
    [][fpc = "loop" /\ fpc' = "loop" =>
        /\ expected_payout' = DeathPart(args, survival, p_death')
                              + CriticalPart(args, survival)
                              + DisabilityPart(args, survival, t')
        /\ (args.age + t' >= 60 =>
                expected_payout' = DeathPart(args, survival, p_death')
                                   + CriticalPart(args, survival))]_vars

\* all three riders in the first year without Disability: age + t = 60
C8_Witness ==
    /\ InYear /\ args.accidental /\ args.critical /\ args.disability
    /\ args.age + t = 60 /\ args.coverage > 0
    /\ expected_payout > 0

\* two policies that differ in the Waiver of Premium rider only
SameButWaiver(pa, pb) == pb = [pa EXCEPT !.wop = pb.wop]

\* C10: from age 44 on the Waiver of Premium rider changes nothing: the
\* full premium is charged in every year and the NPV with the rider equals
\* the NPV without it; up to age 43 the waived years are the years
\* 11..(54 - age) that lie in the premium-paying period.
C10_WaiverByAge ==
    /\ (InYear /\ args.age >= 44 => effective_premium = args.premium)
    /\ (spc \in {"util", "sweepA"} /\ age >= 44 /\ SameButWaiver(polA, polB)
            => npvA = npvB)
    /\ (InYear /\ args.wop /\ args.age <= 43 /\ args.premium # 0 =>
            ((premium_added /\ effective_premium = 0) <=>
             (t >= 11 /\ t <= 54 - args.age /\ InPayingPeriod(args, t))))

\* a 44-year-old whose two 80-year policies differ in the rider only
C10_Witness ==
    /\ spc = "util" /\ age = 44
    /\ polA.wop /\ ~polB.wop /\ polA.prem > 0 /\ polA.term = MaxTerm
    /\ polA.type = "Term Insurance"
    /\ npvA = npvB

\* the pair be sits at one index of the sweep x, y and no |y| is smaller
IsBreakEven(be, x, y) ==
    /\ \E i \in 1..Len(y) : be = <<x[i], y[i]>>
    /\ \A j \in 1..Len(y) : Abs(be[2]) <= Abs(y[j])

\* C3: for a non-empty sweep, find_break_even returns a pair (x, npv) taken
\* at one common index of the two sequences, so x is a sampled value, and
\* |npv| is less than or equal to the absolute value of every NPV of the
\* sweep.
C3_BreakEvenIsSample ==
    spc = "done" =>
        /\ IsBreakEven(beA, terms, npvA_terms)
        /\ IsBreakEven(beB, terms, npvB_terms)

\* the break-even is a negative NPV at the third sample, after larger ones
C3_Witness ==
    /\ spc = "done" /\ Len(npvA_terms) >= 3
    /\ beA = <<terms[3], npvA_terms[3]>>
    /\ beA[2] = -1 /\ npvA_terms[1] = -2 /\ npvA_terms[2] = 2

\* C4: for cover >= 0, dependents >= 0 and any NPV the utility score
\* cover * max(dependents, 1) / (|npv| + 1) has a denominator of at least 1
\* and is >= 0; with npv = 0 and dependents = 0 it equals the cover.
C4_UtilityDefined ==
    spc = "sweepA" =>
        /\ utilA.den >= 1 /\ utilB.den >= 1
        /\ utilA.num >= 0 /\ utilB.num >= 0
        /\ utilA.num \div utilA.den >= 0 /\ utilB.num \div utilB.den >= 0
        /\ (npvA = 0 /\ dependents = 0 =>
                utilA.num = polA.cover * utilA.den)
        /\ (npvB = 0 /\ dependents = 0 =>
                utilB.num = polB.cover * utilB.den)

\* score(cover = 1,000,000, dependents = 0, npv = 0) = 1,000,000
C4_Witness ==
    /\ spc = "sweepA" /\ npvA = 0 /\ dependents = 0
    /\ polA.cover = 1000000
    /\ utilA.den = 1 /\ utilA.num \div utilA.den = 1000000

\* the last element of a sequence
Last(q) == q[Len(q)]

\* C5: insurance_npv is a function of its arguments alone.  Every value the
\* script stores, whatever was called before it, is the value of the
\* function at the arguments of that call; a year of a call changes nothing
\* but the locals of the call; two policies with identical settings get
\* identical NPVs, identical sweeps and the same break-even pair; and the
\* sweep sample taken at the policy's own term repeats the NPV of the
\* top-level call.
C5_Deterministic ==
    /\ [](fpc = "idle" =>
            /\ (spc = "npvB" => npvA = insurance_npv(ArgsFor(polA, polA.term)))
            /\ (spc = "util" => npvB = insurance_npv(ArgsFor(polB, polB.term)))
            /\ (spc \in {"sweepA", "sweepB"} /\ npvA_terms # <<>> /\ npvB_terms = <<>>
                    => Last(npvA_terms)
                         = insurance_npv(ArgsFor(polA, terms[Len(npvA_terms)])))
            /\ (spc \in {"sweepB", "break_even"} /\ npvB_terms # <<>>
                    => Last(npvB_terms)
                         = insurance_npv(ArgsFor(polB, terms[Len(npvB_terms)])))
            /\ (spc = "done" =>
                    /\ (polA = polB =>
                            /\ npvA = npvB
                            /\ npvA_terms = npvB_terms
                            /\ beA = beB)
                    /\ (polA.type = "Term Insurance" =>
                            npvA_terms[polA.term - MinTerm + 1] = npvA)
                    /\ (polB.type = "Term Insurance" =>
                            npvB_terms[polB.term - MinTerm + 1] = npvB)))
    /\ [][fpc = "loop" /\ fpc' = "loop" =>
            UNCHANGED <<inputs, results, spc, args>>]_vars

\* the script has finished for two identical Term policies
C5_Witness ==
    /\ spc = "done" /\ polA = polB /\ polA.type = "Term Insurance"
    /\ npvA # 0 /\ npvA = npvB
    /\ Len(npvA_terms) = Len(terms) /\ npvA_terms = npvB_terms
    /\ npvA_terms[polA.term - MinTerm + 1] = npvA
    /\ beA = beB

\* C9: the NPV of a Whole Life policy does not depend on term_years: every
\* sample of its NPV-vs-Term sweep equals the NPV of the top-level call, and
\* the break-even of the sweep is its first sample, term 5.
C9_WholeLifeIgnoresTerm ==
    /\ (polA.type = "Whole Life" =>
            /\ \A i \in 1..Len(npvA_terms) : npvA_terms[i] = npvA
            /\ (spc = "done" =>
                    /\ Len(npvA_terms) = MaxTerm - MinTerm + 1
                    /\ beA = <<MinTerm, npvA>>))
    /\ (polB.type = "Whole Life" =>
            /\ \A i \in 1..Len(npvB_terms) : npvB_terms[i] = npvB
            /\ (spc = "done" =>
                    /\ Len(npvB_terms) = MaxTerm - MinTerm + 1
                    /\ beB = <<MinTerm, npvB>>))

\* a finished script whose Policy A is Whole Life and whose Policy B is a
\* Term policy with a sweep that does vary
C9_Witness ==
    /\ spc = "done" /\ polA.type = "Whole Life" /\ polB.type = "Term Insurance"
    /\ Len(npvA_terms) = MaxTerm - MinTerm + 1
    /\ npvA # 0 /\ beA = <<MinTerm, npvA>>
    /\ npvB_terms[1] # Last(npvB_terms)

====
